---- MODULE Spec2Model ----
(***************************************************************************)
(* jamf-api-tool: the Delete Executor (jamf_api_lib/api_delete.py), the     *)
(* response classification of the transport (jamf_api_lib/curl.py), the     *)
(* usage classification and the confirm-then-delete loops of the handlers   *)
(* (jamf_api_tool.py, jamf_api_lib/actions.py).                             *)
(*                                                                          *)
(* The specifications share the variables below:                            *)
(*   SpecDelete / FairSpecDelete  one call of delete_api_object or          *)
(*                                delete_uapi_object                         *)
(*   SpecUsage                    gather + classify phase of a handler run  *)
(*                                with --unused                              *)
(*   SpecOrch                     the confirm-then-delete loop of a handler *)
(*   SpecMain                     main(): flags, handler, search, name list *)
(*   SpecTransport                one call of curl.request, any input       *)
(*   SpecSession                  the calls of curl.request of one run      *)
(*   SpecCatalog                  two calls of api_objects.api_endpoints    *)
(*   SpecRace                     two instances of the tool, one call of    *)
(*                                curl.request each, on one workspace path  *)
(***************************************************************************)
EXTENDS Integers, Sequences, FiniteSets, TLC

VARIABLES
    \* ---- Delete Executor (api_delete.py) ----
    dfunc,      \* which function runs: "delete_api_object" | "delete_uapi_object"
    dpc,        \* "idle" (not called) | "loop" | "done" (returned) | "raised"
    count,      \* the loop counter of the function
    r_status,   \* r.status_code of the last response (NoStatus: None)
    ret,        \* the value returned (meaningful when dpc = "done")
    requests,   \* history: number of curl.request calls made
    resps,      \* history: status codes of the responses received, in order
    verdicts,   \* history: what curl.status_check returned for each response
    sleeps,     \* history: the arguments of the sleep() calls, in order
    \* ---- Usage Resolver (handle_packages, handle_scripts, handle_eas,
    \*      handle_groups, handle_ios_groups) ----
    otype,      \* the object type of the run ("none": no handler runs)
    args_unused,\* args.unused (a run without it was started with --all)
    idkind,     \* how the server encodes ids in JSON: "int" | "str"
    upc,        \* "idle" | "gather" | "list" | "classify" | "classified"
    refs,       \* the handler's reference collections, by variable name
    fetched,    \* history: per collection, "ok" | "failed" | "skipped"
    listing,    \* the objects get_api_obj_list / get_uapi_obj_list returned
    idx,        \* position of the loop "for package in packages"
    used,       \* used_packages, used_scripts, ...: dict id -> name
    unused,     \* unused_packages, unused_scripts, ...: dict id -> name
    \* ---- Deletion Orchestrator (the confirm-then-delete block of a handler) ----
    handler,    \* the handler that runs ("none": no handler runs)
    args_delete,\* args.delete
    other_found,\* handle_policies: the list not acted on is non-empty
    cands,      \* the ids of the dict the handler acts on, in its order
    opc,        \* "idle" | "start" | "bulk_prompt" | "ids_prompt" | "items"
                \* | "done" | "quit" (exit() in confirm) | "crashed" (exception)
    delete_all, \* the local delete_all
    id_list,    \* the local id_list
    pos,        \* position of the loop over the candidates
    status_code,\* the local status_code: what the last delete call returned
    typed_ids,  \* history: whether the allow-list was asked for, and the ids typed
    asked,      \* history: the per-item prompts answered: <<id, answer>>
    deleted,    \* history: the calls of the Delete Executor: <<id, function>>
    retypes,    \* history: number of answers confirm() refused
    \* ---- main() and the flags of the run (jamf_api_tool.py) ----
    args,       \* the parsed flags other than --delete (see ArgsOf)
    mpc,        \* "idle" | "dispatch" | "handler" | "search" | "names" | "end"
                \* | "exited" (sys.exit / exit with an error message)
    npos,       \* position of the loop over args.names / the search targets
    existing,   \* the names of the policies that exist on the server
    looked_up,  \* history: the names handle_policy_list looked up
    origin,     \* history: for each entry of deleted, the code that made the
                \* call: "block" | "search" | "names"
    notified,   \* history: the ids send_slack_notification was called for
    smb_ops,    \* history: the ids whose file was deleted from the share
    quit_typed, \* history: q or Q was typed at a confirm() prompt
    query,      \* the strings given with --search, in the order given
    \* ---- Transport (curl.request) ----
    tpc,        \* "idle" | "ready" (between requests) | "raised"
    headers_file,\* curl_headers_from_jamf_upload.txt: NoFile or its lines
    cookie_jar, \* curl_cookies_from_jamf_upload.txt: NoFile or its lines
    curl_cmd,   \* the command of the last request (NoCommand before the first)
    sent_cookies,\* history: per request, the --cookie value sent or "none"
    resp_markers,\* history: per response, the APBALANCEID value or "none"
    \* ---- Endpoint Catalog (api_objects.api_endpoints) ----
    cpc,        \* "idle" | "ready"
    ctypes,     \* the object types of two calls of api_endpoints
    cres,       \* what each call gave: NotCalled, a path, or the exception
    \* ---- what follows a delete in the handlers ----
    returned,   \* history: the ids of the Delete Executor calls that returned
    last_note,  \* the notification sent last (object, action, status)
    share_step, \* the file-share step entered last (n-th, id, outcome, status)
    \* ---- two instances of the tool, one call of curl.request each ----
    rpc,        \* per instance: "idle" | "start" | "ran" | "returned"
    rfiles,     \* the files of the workspace: path -> content
    rret,       \* per instance: the headers and status its call returned
    rlast       \* history: the headers the curl process that ended last wrote

dvars == <<dfunc, dpc, count, r_status, ret, requests, resps, verdicts, sleeps>>

uvars == <<otype, args_unused, idkind, upc, refs, fetched, listing, idx, used, unused>>

ovars == <<handler, args_delete, other_found, cands, opc, delete_all, id_list, pos,
           status_code, typed_ids, asked, deleted, retypes>>

mvars ==
    <<args, mpc, npos, existing, looked_up, origin, notified, smb_ops, quit_typed,
      query>>

tvars == <<tpc, headers_file, cookie_jar, curl_cmd, sent_cookies, resp_markers>>

cvars == <<cpc, ctypes, cres>>

rvars == <<rpc, rfiles, rret, rlast>>

yvars == <<cvars, rvars>>

evars == <<returned, last_note, share_step>>

xvars == <<mvars, tvars, yvars, evars>>

vars == <<dvars, uvars, ovars, xvars>>

(***************************************************************************)
(* Transport: status codes and their classification                         *)
(***************************************************************************)

\* r.status_code keeps its default None when no HTTP status line was read
NoStatus == -1

\* the codes curl.status_check names
StopCodes == {200, 201, 204, 409, 404, 401}

\* status codes a response may carry: the classified ones, some others, None
Statuses == StopCodes \cup {202, 400, 403, 500, NoStatus}

\* actions.status_check: the older classification, without 204 and 404
status_check_upload(code) ==
    IF code = 200 \/ code = 201 THEN "break"
    ELSE IF code = 409 THEN "break"
    ELSE IF code = 401 THEN "break"
    ELSE "None"

\* curl.status_check: "break" or (falling off the end) None
status_check(code) ==
    IF code = 200 \/ code = 201 \/ code = 204 THEN "break"
    ELSE IF code = 409 THEN "break"
    ELSE IF code = 404 THEN "break"
    ELSE IF code = 401 THEN "break"
    ELSE "None"

(***************************************************************************)
(* Python values                                                            *)
(***************************************************************************)

\* an empty dict
EmptyDict == [k \in {} |-> ""]

\* d[k] = v
Put(d, k, v) == [x \in DOMAIN d \cup {k} |-> IF x = k THEN v ELSE d[x]]

\* None, and a list of names (its order and repetitions play no part here)
PyNone == [some |-> FALSE, items |-> {}]
PyList(S) == [some |-> TRUE, items |-> S]

\* "if coll:" -- None and the empty list are both false
Truthy(coll) == coll.some /\ coll.items # {}

\* the usage handlers are idle in the specifications that do not run them
UsageIdle ==
    /\ otype = "none"
    /\ args_unused = FALSE
    /\ upc = "idle"
    /\ refs = EmptyDict
    /\ fetched = EmptyDict
    /\ listing = <<>>
    /\ idx = 0
    /\ used = EmptyDict
    /\ unused = EmptyDict

\* the empty str "", the empty tuple (), and the list chosen_ids.split() gives
PyEmptyStr == [isstr |-> TRUE, items |-> {}]
PyEmptyTuple == [isstr |-> FALSE, items |-> {}]
PyTokens(S) == [isstr |-> FALSE, items |-> S]

\* the confirm-then-delete blocks are idle in the specifications that do not
\* run them
OrchIdle ==
    /\ handler = "none"
    /\ args_delete = FALSE
    /\ other_found = FALSE
    /\ cands = <<>>
    /\ opc = "idle"
    /\ delete_all = FALSE
    /\ id_list = PyEmptyStr
    /\ pos = 0
    /\ status_code = NoStatus
    /\ typed_ids = [asked |-> FALSE, ids |-> {}]
    /\ asked = <<>>
    /\ deleted = <<>>
    /\ retypes = 0

\* the object types of the mutually exclusive group of get_args
ObjectTypes ==
    {"computer", "policies", "packages", "scripts", "ea", "macosgroups",
     "iosgroups", "macosprofiles", "iosprofiles", "acs", "ads"}

\* the flags of a run: type is the member of the exclusive group that was
\* given; search, category are TRUE when the appended list is non-empty;
\* names is the list of the --name values
ArgsOf(ty, al, un, di, de, se, ca, fc, sl, sm, nm) ==
    [type |-> ty, all |-> al, unused |-> un, disabled |-> di, details |-> de,
     search |-> se, category |-> ca, from_csv |-> fc, slack |-> sl,
     smb_url |-> sm, names |-> nm]

\* a run of a handler's block with only --slack and --smb_url left open
BlockArgs(sl, sm) ==
    ArgsOf("none", FALSE, FALSE, FALSE, FALSE, FALSE, FALSE, FALSE, sl, sm, <<>>)

\* main() is idle in the specifications that do not run it
MainIdle ==
    /\ mpc = "idle"
    /\ npos = 0
    /\ existing = {}
    /\ looked_up = <<>>
    /\ origin = <<>>
    /\ notified = <<>>
    /\ smb_ops = <<>>
    /\ quit_typed = FALSE
    /\ query = <<>>

\* a file that does not exist; curl_cmd before the first request
NoFile == <<"no file">>
NoCommand == [method |-> "none"]

\* the Transport is idle in the specifications that do not follow its calls
TransportIdle ==
    /\ tpc = "idle"
    /\ headers_file = NoFile
    /\ cookie_jar = NoFile
    /\ curl_cmd = NoCommand
    /\ sent_cookies = <<>>
    /\ resp_markers = <<>>

\* a call of api_endpoints that has not been made
NotCalled == [called |-> FALSE]

\* the Endpoint Catalog is idle in the specifications that do not call it
CatalogIdle ==
    /\ cpc = "idle"
    /\ ctypes = <<"", "">>
    /\ cres = <<NotCalled, NotCalled>>

\* no notification has been sent, no file-share step entered
NoNotification == [object |-> "", action |-> "none", status |-> NoStatus]

NoShareStep == [n |-> 0, id |-> "", outcome |-> "none", status |-> NoStatus]

\* nothing has followed a delete yet
EffectsIdle ==
    /\ returned = <<>>
    /\ last_note = NoNotification
    /\ share_step = NoShareStep

\* the instances of the tool that run at the same time
Instances == {"A", "B"}

headers_file_private(i) ==
    <<"/tmp/jamf_upload", i, "curl_headers_from_jamf_upload.txt">>

\* 'tmp_dir = make_tmp_dir()' with its default "/tmp/jamf_upload", then
\* 'headers_file = os.path.join(tmp_dir, "curl_headers_from_jamf_upload.txt")':
\* the path does not depend on the process
headers_file_path(i) ==
    <<"/tmp/jamf_upload", "curl_headers_from_jamf_upload.txt">>

WorkspacePaths == {headers_file_path(i) : i \in Instances}

\* a headers file: the instance whose curl process wrote it and the status
\* line it holds; NoHeaders when nothing has been written or returned
NoHeaders == [writer |-> "none", status |-> NoStatus]

\* no instance runs in the specifications of a single run
RaceIdle ==
    /\ rpc = [i \in Instances |-> "idle"]
    /\ rfiles = [f \in WorkspacePaths |-> NoHeaders]
    /\ rret = [i \in Instances |-> NoHeaders]
    /\ rlast = NoHeaders

RestIdle == CatalogIdle /\ EffectsIdle /\ RaceIdle

ExtraIdle == args = BlockArgs(FALSE, FALSE) /\ MainIdle /\ TransportIdle /\ RestIdle

(***************************************************************************)
(* Delete Executor                                                          *)
(***************************************************************************)

\* the number in "if count > 5" and in the warning "after 5 attempts"
MaxAttempts == 5

\* the model stops a call whose counter reaches this value (never reached by
\* the loop as written, which leaves at count = MaxAttempts + 1 at the latest)
CountCap == 7

DeleteFunctions == {"delete_api_object", "delete_uapi_object"}

\* the url suffix each function appends to the endpoint
DeleteUrlSuffix(f) == IF f = "delete_api_object" THEN "/id/{obj_id}" ELSE "/{obj_id}"

GiveUpNever(c) == FALSE

\* "if count > 5: ... break"
GiveUp(c) == c > MaxAttempts

BackoffDouble(c) == 2 * c

\* "sleep(count)"
Backoff(c) == c

InitDelete ==
    /\ dfunc \in DeleteFunctions
    /\ dpc = "loop"
    /\ count = 0
    /\ r_status = NoStatus
    /\ ret = NoStatus
    /\ requests = 0
    /\ resps = <<>>
    /\ verdicts = <<>>
    /\ sleeps = <<>>
    /\ UsageIdle
    /\ idkind = "int"
    /\ OrchIdle
    /\ ExtraIdle

\* one iteration of "while True": count += 1, the request, status_check, then
\* break (stop code), break (attempts used up) or sleep(count)
DeleteAttempt ==
    /\ dpc = "loop"
    /\ count < CountCap
    /\ \E s \in Statuses :
         LET c == count + 1
             v == status_check(s)
         IN  /\ count' = c
             /\ requests' = requests + 1
             /\ r_status' = s
             /\ resps' = Append(resps, s)
             /\ verdicts' = Append(verdicts, v)
             /\ IF v = "break"
                  THEN /\ dpc' = "done"
                       /\ ret' = s
                       /\ sleeps' = sleeps
                  ELSE IF GiveUp(c)
                         THEN /\ dpc' = "done"
                              /\ ret' = s
                              /\ sleeps' = sleeps
                         ELSE /\ dpc' = "loop"
                              /\ ret' = ret
                              /\ sleeps' = Append(sleeps, Backoff(c))
    /\ UNCHANGED <<dfunc, uvars, ovars, xvars>>

OnTransportFaultRetry == "loop"

\* where the loop is after "r = curl.request(...)" has raised: there is no
\* try around the call, the exception leaves the function
OnTransportFault == "raised"

\* curl.request: subprocess.check_output raises when curl fails; nothing in
\* the loop catches it, so the call ends without a status
DeleteFault ==
    /\ dpc = "loop"
    /\ count < CountCap
    /\ count' = count + 1
    /\ requests' = requests + 1
    /\ dpc' = OnTransportFault
    /\ UNCHANGED <<dfunc, r_status, ret, resps, verdicts, sleeps, uvars, ovars, xvars>>

NextDelete == DeleteAttempt \/ DeleteFault

SpecDelete == InitDelete /\ [][NextDelete]_vars

\* the loop is sequential code: a call that can take a step takes it
FairSpecDelete == SpecDelete /\ WF_vars(NextDelete)

RECURSIVE SumSeq(_)
SumSeq(s) == IF s = <<>> THEN 0 ELSE Head(s) + SumSeq(Tail(s))

Min(a, b) == IF a < b THEN a ELSE b

AllUnclassified(s) == \A i \in 1..Len(s) : s[i] \notin StopCodes

(***************************************************************************)
(* Claims about the Delete Executor and the classification                  *)
(***************************************************************************)

\* C1: one call never issues more than 5 DELETE requests, and when every
\* response of the call was unclassified the number of requests issued is
\* min(n, 5), n being the number of unclassified responses the server gave.
C1_AtMostFiveRequests ==
    /\ requests <= 5
    /\ (dpc = "done" /\ AllUnclassified(resps)) => requests = Min(Len(resps), 5)

\* C2: a response with a stop code ends the call at once: it is the last
\* response of the call (no later request), every sleep of the call came
\* before it, and the call returns that status; a 409 on the first attempt
\* gives one request and the return value 409.
C2_StopReturnsAtOnce ==
    /\ \A i \in 1..Len(resps) :
         resps[i] \in StopCodes =>
            /\ i = Len(resps)
            /\ requests = i
            /\ Len(sleeps) = i - 1
            /\ dpc = "done"
            /\ ret = resps[i]
    /\ (Len(resps) >= 1 /\ resps[1] = 409) => (requests = 1 /\ ret = 409)

C2_Witness ==
    dpc = "done" /\ resps = <<409>> /\ requests = 1 /\ ret = 409 /\ sleeps = <<>>

\* C3: every call ends (returns, or is left by the fault curl raised),
\* whatever the status codes of the responses, None included.
C3_Terminates == <>(dpc \in {"done", "raised"})

C3_Witness ==
    /\ dpc = "done"
    /\ Len(resps) = MaxAttempts + 1
    /\ \A i \in 1..Len(resps) : resps[i] = NoStatus

\* C4: the k-th sleep of a call follows the k-th unclassified response and
\* lasts k time units, no sleep follows the final attempt, and the time slept
\* in one call is at most 15.
C4_LinearBackoff ==
    /\ \A k \in 1..Len(sleeps) :
         /\ sleeps[k] = k
         /\ k <= Len(resps)
         /\ resps[k] \notin StopCodes
    /\ dpc = "done" => Len(sleeps) = Len(resps) - 1
    /\ SumSeq(sleeps) <= 15

C4_Witness ==
    dpc = "done" /\ sleeps = <<1, 2, 3, 4, 5>> /\ SumSeq(sleeps) = 15

\* C5: status_check answers "break" exactly for 200, 201, 204, 409, 404 and
\* 401, and gives no stop signal for any other status, a missing one included.
C5_Classification ==
    /\ Len(verdicts) = Len(resps)
    /\ \A i \in 1..Len(resps) :
         (verdicts[i] = "break") <=> (resps[i] \in {200, 201, 204, 409, 404, 401})

C5_Witness ==
    /\ Len(resps) = 3
    /\ resps[1] = NoStatus /\ verdicts[1] = "None"
    /\ resps[2] = 500 /\ verdicts[2] = "None"
    /\ resps[3] = 404 /\ verdicts[3] = "break"


\* a request of the call ended without a response: the curl process failed
Faulted == requests > Len(resps)

\* C26: when the curl process of a DELETE fails, the call of the Delete
\* Executor ends with the exception: that request is the last one of the call
\* (no retry), no sleep is made for it (every sleep follows a response), and
\* the call returns no status code.
C26_FaultPropagates ==
    Faulted =>
        /\ dpc = "raised"
        /\ ~ENABLED NextDelete
        /\ requests = Len(resps) + 1
        /\ Len(sleeps) = Len(resps)
        /\ ret = NoStatus

\* the third request fails after two 500 responses and their sleeps
C26_Witness ==
    /\ dpc = "raised"
    /\ requests = 3
    /\ resps = <<500, 500>>
    /\ sleeps = <<1, 2>>
    /\ ret = NoStatus

(***************************************************************************)
(* Usage Resolver: the gather and classify phases of the five handlers      *)
(***************************************************************************)

\* longest listing the model draws
MaxListing == 2

\* most reference entries (collection, name) the model draws in one gather
MaxRefs == 2

\* most fetches of one gather phase that fail
MaxFailed == 1

\* object names on the server; "1" is also the text of an id
Names == {"1", "Chrome.pkg", "Marketing"}

\* the id of the i-th object of a listing (ids are distinct)
IdTokens == <<"1", "2", "3", "4">>

IdKinds == {"int", "str"}

UsageTypes ==
    {"package", "script", "extension_attribute", "computer_group",
     "mobile_device_group"}

\* the reference collections each handler fetches, by variable name
Collections(t) ==
    CASE t = "package" ->
           {"packages_in_prestages", "packages_in_titles", "packages_in_policies"}
      [] t = "script" ->
           {"scripts_in_policies"}
      [] t = "extension_attribute" ->
           {"criteria_in_computer_groups", "names_in_advanced_searches"}
      [] t = "computer_group" ->
           {"criteria_in_computer_groups", "names_in_advanced_searches",
            "groups_in_policies", "groups_in_mas_apps",
            "groups_in_config_profiles", "groups_in_patch_policies",
            "groups_in_restricted_software"}
      [] t = "mobile_device_group" ->
           {"criteria_in_ios_groups", "names_in_ios_advanced_searches",
            "groups_in_ios_apps", "groups_in_ios_config_profiles"}
      [] OTHER -> {}

\* the subsets of S with at most k elements
RECURSIVE SubsetsUpTo(_, _)
SubsetsUpTo(S, k) ==
    IF k = 0 \/ S = {} THEN {{}}
    ELSE LET x == CHOOSE y \in S : TRUE
         IN  SubsetsUpTo(S \ {x}, k)
                \cup {T \cup {x} : T \in SubsetsUpTo(S \ {x}, k - 1)}

\* what the fetch of collection k gives the handler: no value when the fetch
\* failed (k \in F), else the list of the names found in it (the entries E)
FetchValue(k, F, E) ==
    IF k \in F THEN PyNone ELSE PyList({n \in Names : <<k, n>> \in E})

\* the pattern
\*     if coll:
\*         if x["name"] not in coll: unused_in_coll = 1
\*     else:
\*         unused_in_coll = 1
\* gives unused_in_coll == 1 exactly when:
UnusedInEmptyBlocks(name, coll) ==
    IF Truthy(coll) THEN name \notin coll.items ELSE FALSE

UnusedIn(name, coll) ==
    IF Truthy(coll) THEN name \notin coll.items ELSE TRUE

unused_package_no_titles(name, r) ==
    /\ UnusedIn(name, r["packages_in_policies"])
    /\ UnusedIn(name, r["packages_in_prestages"])

unused_package(name, r) ==
    /\ UnusedIn(name, r["packages_in_policies"])
    /\ UnusedIn(name, r["packages_in_titles"])
    /\ UnusedIn(name, r["packages_in_prestages"])

unused_script(name, r) ==
    UnusedIn(name, r["scripts_in_policies"])

unused_ea(name, r) ==
    /\ UnusedIn(name, r["criteria_in_computer_groups"])
    /\ UnusedIn(name, r["names_in_advanced_searches"])

unused_group(name, r) ==
    /\ UnusedIn(name, r["criteria_in_computer_groups"])
    /\ UnusedIn(name, r["names_in_advanced_searches"])
    /\ UnusedIn(name, r["groups_in_policies"])
    /\ UnusedIn(name, r["groups_in_mas_apps"])
    /\ UnusedIn(name, r["groups_in_config_profiles"])
    /\ UnusedIn(name, r["groups_in_patch_policies"])
    /\ UnusedIn(name, r["groups_in_restricted_software"])

unused_ios_group(name, r) ==
    /\ UnusedIn(name, r["criteria_in_ios_groups"])
    /\ UnusedIn(name, r["names_in_ios_advanced_searches"])
    /\ UnusedIn(name, r["groups_in_ios_apps"])
    /\ UnusedIn(name, r["groups_in_ios_config_profiles"])

UnusedVerdict(t, name, r) ==
    CASE t = "package" -> unused_package(name, r)
      [] t = "script" -> unused_script(name, r)
      [] t = "extension_attribute" -> unused_ea(name, r)
      [] t = "computer_group" -> unused_group(name, r)
      [] t = "mobile_device_group" -> unused_ios_group(name, r)

\* 'package["name"] not in used_packages': membership of the NAME among the
\* KEYS of the dict, which are ids; an int key never equals a str
NameInKeys(name, d) == idkind = "str" /\ name \in DOMAIN d

\* the Delete Executor is idle in the specifications that do not call it
DeleteIdle ==
    /\ dfunc = "delete_api_object"
    /\ dpc = "idle"
    /\ count = 0
    /\ r_status = NoStatus
    /\ ret = NoStatus
    /\ requests = 0
    /\ resps = <<>>
    /\ verdicts = <<>>
    /\ sleeps = <<>>

InitUsage ==
    /\ otype \in UsageTypes
    /\ args_unused \in BOOLEAN
    /\ idkind \in IdKinds
    /\ upc = "gather"
    /\ refs = EmptyDict
    /\ fetched = EmptyDict
    /\ listing = <<>>
    /\ idx = 0
    /\ used = EmptyDict
    /\ unused = EmptyDict
    /\ DeleteIdle
    /\ OrchIdle
    /\ ExtraIdle

\* "if args.unused:" every collection of the handler is fetched; "else:" each
\* is set to []
Gather ==
    /\ upc = "gather"
    /\ IF args_unused
         THEN \E F \in SubsetsUpTo(Collections(otype), MaxFailed) :
              \E E \in SubsetsUpTo((Collections(otype) \ F) \X Names, MaxRefs) :
                /\ refs' = [k \in Collections(otype) |-> FetchValue(k, F, E)]
                /\ fetched' = [k \in Collections(otype) |->
                                  IF k \in F THEN "failed" ELSE "ok"]
         ELSE /\ refs' = [k \in Collections(otype) |-> PyList({})]
              /\ fetched' = [k \in Collections(otype) |-> "skipped"]
    /\ upc' = "list"
    /\ UNCHANGED <<otype, args_unused, idkind, listing, idx, used, unused, dvars, ovars, xvars>>

\* "packages = api_get.get_api_obj_list(...)" and "if packages:"
ListObjects ==
    /\ upc = "list"
    /\ \E n \in 0..MaxListing : \E names \in [1..n -> Names] :
         \* the server keeps the names of one object type distinct
         /\ \A i, j \in 1..n : names[i] = names[j] => i = j
         /\ listing' = [i \in 1..n |-> [id |-> IdTokens[i], name |-> names[i]]]
         /\ upc' = IF n = 0 THEN "classified" ELSE "classify"
    /\ idx' = 1
    /\ UNCHANGED <<otype, args_unused, idkind, refs, fetched, used, unused, dvars, ovars, xvars>>

\* one iteration of "for package in packages:" (with --all alone the
\* iteration only prints)
ClassifyStep ==
    /\ upc = "classify"
    /\ idx <= Len(listing)
    /\ LET x == listing[idx]
       IN  IF args_unused
             THEN IF UnusedVerdict(otype, x.name, refs)
                    THEN /\ unused' = Put(unused, x.id, x.name)
                         /\ used' = used
                    ELSE IF ~NameInKeys(x.name, used)
                           THEN /\ used' = Put(used, x.id, x.name)
                                /\ unused' = unused
                           ELSE UNCHANGED <<used, unused>>
             ELSE UNCHANGED <<used, unused>>
    /\ idx' = idx + 1
    /\ upc' = IF idx = Len(listing) THEN "classified" ELSE "classify"
    /\ UNCHANGED <<otype, args_unused, idkind, refs, fetched, listing, dvars, ovars, xvars>>

NextUsage == Gather \/ ListObjects \/ ClassifyStep

SpecUsage == InitUsage /\ [][NextUsage]_vars

\* the candidates the classify loop has handled so far
Processed == IF upc \in {"classify", "classified"} THEN 1..(idx - 1) ELSE {}

\* the number of reference sets the spec names for each object type
ExpectedSets(t) ==
    CASE t = "package" -> 3
      [] t = "script" -> 1
      [] t = "extension_attribute" -> 2
      [] t = "computer_group" -> 7
      [] t = "mobile_device_group" -> 4

(***************************************************************************)
(* Claims about the Usage Resolver                                          *)
(***************************************************************************)

\* C6: for each of the five object types (3, 1, 2, 7 and 4 reference sets), a
\* candidate is classified Unused iff its name is an exact member of none of
\* the applicable reference sets; an empty set never blocks Unused.
C6_UnusedIffInNoSet ==
    (args_unused /\ upc \in {"classify", "classified"}) =>
        /\ DOMAIN refs = Collections(otype)
        /\ Cardinality(DOMAIN refs) = ExpectedSets(otype)
        /\ \A i \in Processed :
             (listing[i].id \in DOMAIN unused)
                <=> (\A k \in DOMAIN refs : listing[i].name \notin refs[k].items)

\* a package named in one patch-software-title only is Used
C6_Witness ==
    /\ otype = "package" /\ args_unused /\ upc = "classified"
    /\ refs["packages_in_titles"] = PyList({"Chrome.pkg"})
    /\ refs["packages_in_policies"] = PyList({})
    /\ refs["packages_in_prestages"] = PyList({})
    /\ Len(listing) = 2
    /\ listing[1].name = "Chrome.pkg" /\ listing[1].id \in DOMAIN used
    /\ listing[1].id \notin DOMAIN unused
    /\ listing[2].name = "1" /\ listing[2].id \in DOMAIN unused

\* C7: after the classify phase of a run with --unused every listed resource
\* is a key of exactly one of the maps Used and Unused.
C7_Partition ==
    (args_unused /\ upc = "classified") =>
        \A i \in 1..Len(listing) :
            (listing[i].id \in DOMAIN used) # (listing[i].id \in DOMAIN unused)

\* the body of one iteration of the classify loop, on the maps acc
ClassifyOne(t, x, r, acc) ==
    IF UnusedVerdict(t, x.name, r)
      THEN [acc EXCEPT !.unused = Put(@, x.id, x.name)]
      ELSE IF ~NameInKeys(x.name, acc.used)
             THEN [acc EXCEPT !.used = Put(@, x.id, x.name)]
             ELSE acc

\* the whole loop "for x in listing:" from position i on
RECURSIVE ClassifyFrom(_, _, _, _, _)
ClassifyFrom(t, lst, r, i, acc) ==
    IF i > Len(lst) THEN acc
    ELSE ClassifyFrom(t, lst, r, i + 1, ClassifyOne(t, lst[i], r, acc))

ClassifyAll(t, lst, r) ==
    ClassifyFrom(t, lst, r, 1, [used |-> EmptyDict, unused |-> EmptyDict])

\* the reference data without the set c: its conjunct is the one of an empty
\* list, which is always satisfied
WithoutSet(r, c) == [r EXCEPT ![c] = PyList({})]

\* C22: for a fixed listing and fixed reference data, the run with one more
\* non-empty reference set in the conjunction never classifies Unused a
\* resource that the run without that set classifies Used (it may classify
\* Used a resource that was Unused without it).
C22_Monotonic ==
    (args_unused /\ upc = "classified") =>
        /\ [used |-> used, unused |-> unused] = ClassifyAll(otype, listing, refs)
        /\ \A c \in DOMAIN refs :
             Truthy(refs[c]) =>
                LET fewer == ClassifyAll(otype, listing, WithoutSet(refs, c))
                IN  /\ \A id \in DOMAIN fewer.used : id \notin DOMAIN unused
                    /\ \A id \in DOMAIN unused : id \in DOMAIN fewer.unused

\* an extension attribute named in no advanced search is Unused until the
\* criteria of the computer groups, which name it, are added
C22_Witness ==
    /\ otype = "extension_attribute" /\ args_unused /\ upc = "classified"
    /\ refs["criteria_in_computer_groups"] = PyList({"Marketing"})
    /\ refs["names_in_advanced_searches"] = PyList({"Chrome.pkg"})
    /\ Len(listing) = 1 /\ listing[1].name = "Marketing"
    /\ listing[1].id \in DOMAIN used
    /\ listing[1].id \in
          DOMAIN ClassifyAll(otype, listing,
                             WithoutSet(refs, "criteria_in_computer_groups")).unused

\* C8: no candidate is classified Unused in a run in which the fetch of one of
\* the applicable collections failed (a failed fetch does not count as an
\* empty reference set).
C8_FailedFetchNotEmpty ==
    (args_unused /\ upc \in {"classify", "classified"}) =>
        \A i \in Processed :
            listing[i].id \in DOMAIN unused
                => \A k \in DOMAIN fetched : fetched[k] # "failed"


(***************************************************************************)
(* Deletion Orchestrator: the confirm-then-delete block of the handlers     *)
(***************************************************************************)

\* most candidates the model draws
MaxCands == 2

\* most answers of one run that confirm() refuses and asks again for
MaxRetype == 1

\* what the user may type at a confirm() prompt ("x": anything else)
Answers == {"", "y", "Y", "n", "N", "q", "Q", "x"}

\* the handlers that hold a confirm-then-delete block
Handlers ==
    {"handle_policies", "handle_policies_from_csv_data",
     "handle_policies_in_category", "handle_profiles", "handle_packages",
     "handle_scripts", "handle_eas", "handle_groups", "handle_ios_groups"}

\* the handlers whose block reads chosen_ids = input(...)
AsksAllowList(h) ==
    h \in {"handle_policies", "handle_policies_from_csv_data",
           "handle_policies_in_category", "handle_profiles", "handle_packages"}

\* the handlers whose candidates may be none while the block is still entered
\* (handle_policies: the other of disabled/unused is non-empty; the usage
\* handlers: the listing holds used objects only)
MayFindOthers(h) ==
    h \in {"handle_policies", "handle_packages", "handle_scripts", "handle_eas",
           "handle_groups", "handle_ios_groups"}

EntersDeleteBlockNoFlag(h, n, other, del) ==
    CASE h = "handle_policies_from_csv_data" -> TRUE
      [] h \in {"handle_policies_in_category", "handle_profiles"} -> n > 0
      [] OTHER -> n > 0 \/ other

\* the conditions around the block
EntersDeleteBlock(h, n, other, del) ==
    CASE h = "handle_policies_from_csv_data" -> del
      [] h \in {"handle_policies_in_category", "handle_profiles"} -> n > 0 /\ del
      [] OTHER -> (n > 0 \/ other) /\ del

\* id_list before the bulk prompt: "" or, in handle_packages, ()
IdListAtEntry(h) == IF h = "handle_packages" THEN PyEmptyTuple ELSE PyEmptyStr

\* id_list when the item loop starts, the user having typed the ids S:
\* chosen_ids.split(), but handle_policies_in_category then runs id_list = ""
IdListAfterInput(h, S) ==
    IF h = "handle_policies_in_category" THEN PyEmptyStr ELSE PyTokens(S)

\* id_list when the item loop starts after a bulk yes
IdListAfterBulkYes(h) == IdListAtEntry(h)

\* the function the handler deletes with
DeleteFunction(h) ==
    IF h = "handle_scripts" THEN "delete_uapi_object" ELSE "delete_api_object"

\* the handlers that delete the package file from the share after the delete
DeletesFromShare(h) == h = "handle_packages"

\* the call raised instead of returning a status
FaultRaised == -2

\* what a call of the Delete Executor gives its caller: the last status code
\* (one of each kind: success, stop on failure, retries used up, no status
\* line) or the exception of the transport
DeleteOutcomes == {200, 404, 500, NoStatus, FaultRaised}

\* how the file-share step of one package may go
SmbOutcomes == {"ok", "mount failed", "delete failed", "unmount failed"}

\* mount_smb: "r = subprocess.check_output(mount_cmd)" raises
\* CalledProcessError when the mount command fails
mount_smb(o) == IF o = "mount failed" THEN "raised" ELSE "ok"

\* delete_pkg reports a file it could not delete and returns
delete_pkg(o) == IF o = "delete failed" THEN "warning" ELSE "ok"

\* umount_smb: "except subprocess.CalledProcessError: print(WARNING! ...)"
umount_smb(o) == IF o = "unmount failed" THEN "warning" ELSE "ok"

\* "if args.smb_url:" follows the call of the executor, whatever it returned
SmbStepRuns(code) == TRUE

\* mount, delete the file, unmount: the three calls in a row
SmbStep(o) ==
    IF mount_smb(o) = "raised" THEN "raised"
    ELSE IF delete_pkg(o) = "warning" \/ umount_smb(o) = "warning" THEN "warning"
    ELSE "ok"

\* how the file-share step of a delete of handler h may go, if it is entered
ShareOutcomes(h) ==
    IF DeletesFromShare(h) /\ args.smb_url THEN SmbOutcomes ELSE {"ok"}

\* the message send_slack_notification posts
Notification(obj, action, code) ==
    [object |-> obj, action |-> action, status |-> code]

\* what "if args.slack:" does in the --search branch of a handler:
\* handle_policies has no such statement; handle_packages passes pkg_name,
\* a local variable that only the loops of the other branch bind
SearchNotification(h) ==
    IF h = "handle_packages" THEN "UnboundLocalError" ELSE "none"

confirm_quit_is_no(answer, default) ==
    IF answer = "" THEN (IF default THEN "True" ELSE "False")
    ELSE IF answer \notin {"y", "Y", "n", "N", "q", "Q"} THEN "again"
    ELSE IF answer = "y" \/ answer = "Y" THEN "True"
    ELSE "False"

confirm_enter_is_yes(answer, default) ==
    IF answer = "" THEN "True"
    ELSE IF answer \notin {"y", "Y", "n", "N", "q", "Q"} THEN "again"
    ELSE IF answer = "y" \/ answer = "Y" THEN "True"
    ELSE IF answer = "n" \/ answer = "N" THEN "False"
    ELSE "exit"

\* actions.confirm, one answer: True, False, exit() or the prompt again
confirm(answer, default) ==
    IF answer = "" THEN (IF default THEN "True" ELSE "False")
    ELSE IF answer \notin {"y", "Y", "n", "N", "q", "Q"} THEN "again"
    ELSE IF answer = "y" \/ answer = "Y" THEN "True"
    ELSE IF answer = "n" \/ answer = "N" THEN "False"
    ELSE "exit"

\* "policy_id in id_list": in a str it is a substring test, which raises
\* TypeError for an int and is False for a non-empty str in ""; in a list of
\* str an int is never found
PyIn(id, idl) ==
    IF idl.isstr
      THEN (IF idkind = "int" THEN "TypeError" ELSE "False")
      ELSE (IF idkind = "str" /\ id \in idl.items THEN "True" ELSE "False")

\* "(policy_id in id_list or not id_list)"
InListOrNoList(id, idl) ==
    LET m == PyIn(id, idl)
    IN  IF m = "False" THEN (IF idl.items = {} THEN "True" ELSE "False") ELSE m

PromptsItemAlways(da, m) == m = "True"

\* whether the per-item confirm() is called: "delete_all or (... and
\* actions.confirm(...))" short-circuits on delete_all and on the list test
PromptsItem(da, m) == ~da /\ m = "True"

InitOrch ==
    /\ handler \in Handlers
    /\ args_delete \in BOOLEAN
    /\ idkind \in (IF handler = "handle_policies_from_csv_data"
                     THEN {"str"} ELSE IdKinds)
    /\ other_found \in (IF MayFindOthers(handler) THEN BOOLEAN ELSE {FALSE})
    /\ \E n \in 0..MaxCands : cands = [i \in 1..n |-> IdTokens[i]]
    /\ opc = "start"
    /\ delete_all = FALSE
    /\ id_list = PyEmptyStr
    /\ pos = 0
    /\ status_code = NoStatus
    /\ typed_ids = [asked |-> FALSE, ids |-> {}]
    /\ asked = <<>>
    /\ deleted = <<>>
    /\ retypes = 0
    /\ \E sl \in BOOLEAN,
          sm \in (IF handler = "handle_packages" THEN BOOLEAN ELSE {FALSE}) :
         args = BlockArgs(sl, sm)
    /\ MainIdle
    /\ TransportIdle
    /\ RestIdle
    /\ DeleteIdle
    /\ UsageIdle

\* the listing and the conditions that lead to the block ("if args.delete:")
OrchStart ==
    /\ opc = "start"
    /\ IF EntersDeleteBlock(handler, Len(cands), other_found, args_delete)
         THEN /\ opc' = "bulk_prompt"
              /\ id_list' = IdListAtEntry(handler)
         ELSE /\ opc' = "done"
              /\ id_list' = id_list
    /\ UNCHANGED <<handler, args_delete, other_found, cands, delete_all, pos,
                   status_code, typed_ids, asked, deleted, retypes, dvars, uvars,
                   xvars>>

\* 'if actions.confirm(prompt="Delete all ...?", default=False):' one answer
BulkPrompt ==
    /\ opc = "bulk_prompt"
    /\ \E a \in Answers :
         LET c == confirm(a, FALSE)
         IN  /\ c = "again" => retypes < MaxRetype
             /\ retypes' = IF c = "again" THEN retypes + 1 ELSE retypes
             /\ delete_all' = (c = "True")
             /\ opc' = CASE c = "again" -> "bulk_prompt"
                         [] c = "exit" -> "quit"
                         [] c = "True" -> "items"
                         [] c = "False" ->
                              IF AsksAllowList(handler) THEN "ids_prompt" ELSE "items"
             /\ id_list' = IF c = "True" THEN IdListAfterBulkYes(handler) ELSE id_list
             /\ pos' = 1
             /\ quit_typed' = (quit_typed \/ a \in {"q", "Q"})
    /\ UNCHANGED <<handler, args_delete, other_found, cands, status_code,
                   typed_ids, asked, deleted, dvars, uvars, args, mpc, npos,
                   existing, looked_up, origin, notified, smb_ops, tvars, yvars, query, evars>>

\* 'chosen_ids = input("Enter the IDs ..."); id_list = chosen_ids.split()'
IdsPrompt ==
    /\ opc = "ids_prompt"
    /\ \E S \in SUBSET {IdTokens[i] : i \in 1..(Len(cands) + 1)} :
         /\ typed_ids' = [asked |-> TRUE, ids |-> S]
         /\ id_list' = IdListAfterInput(handler, S)
    /\ opc' = "items"
    /\ UNCHANGED <<handler, args_delete, other_found, cands, delete_all, pos,
                   status_code, asked, deleted, retypes, dvars, uvars, xvars>>

\* one answer-or-iteration of the loop over the candidates:
\*   if delete_all or ((id in id_list or not id_list) and actions.confirm(...)):
\*       status_code = api_delete.delete_api_object(...)
ItemStep ==
    /\ opc = "items"
    /\ \E a \in Answers, out \in DeleteOutcomes, sm \in ShareOutcomes(handler) :
         LET last == pos > Len(cands)
             id == IF last THEN "" ELSE cands[pos]
             m == IF delete_all \/ last THEN "True"
                  ELSE IF AsksAllowList(handler) THEN InListOrNoList(id, id_list)
                  ELSE "True"
             prompted == ~last /\ PromptsItem(delete_all, m)
             c == IF prompted THEN confirm(a, FALSE) ELSE "none"
             go == ~last /\ (delete_all \/ c = "True")
             step == IF pos + 1 > Len(cands) THEN "done" ELSE "items"
             ok == go /\ out # FaultRaised
             smb == ok /\ DeletesFromShare(handler) /\ args.smb_url
                       /\ SmbStepRuns(out)
             smbraised == smb /\ SmbStep(sm) = "raised"
             slack == ok /\ ~smbraised /\ args.slack
         IN  /\ c = "again" => retypes < MaxRetype
             /\ ~smb => sm = "ok"
             /\ retypes' = IF c = "again" THEN retypes + 1 ELSE retypes
             /\ asked' = IF prompted /\ c # "again"
                           THEN Append(asked, <<id, a>>) ELSE asked
             /\ deleted' = IF go THEN Append(deleted, <<id, DeleteFunction(handler)>>)
                           ELSE deleted
             /\ status_code' = IF go /\ out # FaultRaised THEN out ELSE status_code
             /\ opc' = CASE last -> "done"
                         [] m = "TypeError" -> "crashed"
                         [] c = "again" -> "items"
                         [] c = "exit" -> "quit"
                         [] go /\ out = FaultRaised -> "crashed"
                         [] smbraised -> "crashed"
                         [] OTHER -> step
             /\ pos' = IF ~last /\ m # "TypeError" /\ c \notin {"again", "exit"}
                          /\ ~(go /\ out = FaultRaised) /\ ~smbraised
                         THEN pos + 1 ELSE pos
             /\ origin' = IF go THEN Append(origin, "block") ELSE origin
             /\ quit_typed' = (quit_typed \/ (prompted /\ a \in {"q", "Q"}))
             /\ returned' = IF ok THEN Append(returned, id) ELSE returned
             /\ share_step' = IF smb
                                THEN [n |-> share_step.n + 1, id |-> id,
                                      outcome |-> sm, status |-> out]
                                ELSE share_step
             /\ smb_ops' = IF smb /\ ~smbraised THEN Append(smb_ops, id) ELSE smb_ops
             /\ notified' = IF slack THEN Append(notified, id) ELSE notified
             /\ last_note' = IF slack THEN Notification(id, "delete", out)
                              ELSE last_note
    /\ UNCHANGED <<handler, args_delete, other_found, cands, delete_all, id_list,
                   typed_ids, dvars, uvars, args, mpc, npos, existing, looked_up,
                   tvars, yvars, query>>

NextOrch == OrchStart \/ BulkPrompt \/ IdsPrompt \/ ItemStep

SpecOrch == InitOrch /\ [][NextOrch]_vars

\* the ids passed to the Delete Executor so far
DeletedIds == {deleted[i][1] : i \in 1..Len(deleted)}

\* the bulk prompt was answered no
BulkDeclined == opc \in {"ids_prompt", "items", "done", "quit", "crashed"} /\ ~delete_all

(***************************************************************************)
(* Claims about the Deletion Orchestrator                                   *)
(***************************************************************************)

\* C11: when the bulk prompt is answered yes, the candidates are passed to
\* the Delete Executor once each, in listing order (what has been deleted is
\* always a prefix of the candidates, and all of them when the handler is
\* done), and neither a per-item prompt nor the allow-list prompt is shown.
C11_BulkYesDeletesAll ==
    delete_all =>
        /\ asked = <<>>
        /\ ~typed_ids.asked
        /\ opc # "ids_prompt"
        /\ Len(deleted) <= Len(cands)
        /\ \A i \in 1..Len(deleted) : deleted[i][1] = cands[i]
        /\ opc = "done" => Len(deleted) = Len(cands)

C11_Witness ==
    /\ delete_all /\ opc = "done" /\ handler = "handle_packages"
    /\ Len(cands) = 2
    /\ deleted = << <<cands[1], "delete_api_object">>, <<cands[2], "delete_api_object">> >>

\* C9: when the bulk prompt is declined and a non-empty allow-list of ids is
\* entered, no candidate whose id is outside the list is passed to the Delete
\* Executor, in every handler that asks for the list.
C9_AllowListRespected ==
    (BulkDeclined /\ typed_ids.asked /\ typed_ids.ids # {}) =>
        DeletedIds \subseteq typed_ids.ids

\* C10: when the bulk prompt is declined, a candidate is passed to the Delete
\* Executor only if the per-item prompt for that candidate was answered yes;
\* a candidate answered no, or with empty input, is never deleted in the run.
C10_OnlyConfirmedDeleted ==
    BulkDeclined =>
        /\ \A d \in DeletedIds :
             \E j \in 1..Len(asked) : asked[j][1] = d /\ asked[j][2] \in {"y", "Y"}
        /\ \A j \in 1..Len(asked) :
             asked[j][2] \in {"n", "N", ""} => asked[j][1] \notin DeletedIds

C10_Witness ==
    /\ handler = "handle_groups" /\ opc = "done" /\ BulkDeclined
    /\ asked = << <<"1", "">>, <<"2", "y">> >>
    /\ deleted = << <<"2", "delete_api_object">> >>


(***************************************************************************)
(* main(): from the flags to the handler, then the name list                *)
(***************************************************************************)

\* most --name values the model draws
MaxNames == 1

\* most candidates the server holds in a run of main()
MaxMainCands == 1

\* the names --name may give, and the id the server holds each under
PolicyNames == <<"Install Chrome", "Remove Flash", "Update Zoom">>

NameId(nm) ==
    CASE nm = "Install Chrome" -> "11"
      [] nm = "Remove Flash" -> "12"
      [] OTHER -> "13"

\* the if/elif chain of main() over the exclusive group
HandlerFor(a) ==
    CASE a.type = "computer" -> "handle_computers"
      [] a.type = "policies" ->
           IF a.from_csv THEN "handle_policies_from_csv_data"
           ELSE IF a.category THEN "handle_policies_in_category"
           ELSE "handle_policies"
      [] a.type = "packages" -> "handle_packages"
      [] a.type = "scripts" -> "handle_scripts"
      [] a.type = "ea" -> "handle_eas"
      [] a.type = "macosgroups" -> "handle_groups"
      [] a.type = "iosgroups" -> "handle_ios_groups"
      [] a.type \in {"macosprofiles", "iosprofiles"} -> "handle_profiles"
      [] OTHER -> "handle_advancedsearches"

\* "if args.names:" at the end of main()
RunsNameList(a) == a.names # <<>>

\* where main() goes when the handler has returned
AfterHandler(a) == IF RunsNameList(a) THEN "names" ELSE "end"

\* the branch of the handler the flags select: "block" (the code that holds
\* the confirm-then-delete block), "list" (listing only), "search" (the
\* --search branch) or "exit" (exit with an error message)
Mode(h, a) ==
    CASE h = "handle_computers" ->
           IF a.search /\ a.all THEN "exit" ELSE IF ~a.all THEN "exit" ELSE "list"
      [] h = "handle_policies" ->
           IF a.all \/ a.disabled \/ a.unused THEN "block"
           ELSE IF a.search THEN "search" ELSE "exit"
      [] h \in {"handle_policies_from_csv_data", "handle_policies_in_category"} ->
           "block"
      [] h = "handle_profiles" -> IF a.all \/ a.unused THEN "block" ELSE "exit"
      [] h = "handle_packages" ->
           IF a.all \/ a.unused THEN (IF a.unused THEN "block" ELSE "list")
           ELSE IF a.search THEN "search" ELSE "exit"
      [] h = "handle_advancedsearches" -> IF a.all THEN "list" ELSE "exit"
      [] OTHER -> IF a.all \/ a.unused THEN (IF a.unused THEN "block" ELSE "list")
                  ELSE "exit"

\* the dict the block acts on, c being what the server holds: handle_profiles
\* fills unused_profiles only under "if args.details or args.unused"
HandlerCands(h, a, c) ==
    IF h = "handle_profiles" /\ ~(a.details \/ a.unused) THEN <<>> ELSE c

\* most strings given with --search
MaxQueries == 2

\* the strings --search may give, as sequences of characters
QueryStrings == {<<"a">>, <<"b">>}

\* "--search" has action="append": one or more strings
Queries ==
    UNION {[1..n -> QueryStrings] : n \in 1..MaxQueries}

\* the name the server holds the object of an id under
ObjectName(id) ==
    CASE id = "1" -> <<"a", "b">>
      [] id = "2" -> <<"b", "c">>
      [] OTHER -> <<"c">>

\* 'x in policy["name"]' on two str: x is a substring of the name
InName(x, name) ==
    \E k \in 0..(Len(name) - Len(x)) : SubSeq(name, k + 1, k + Len(x)) = x

\* the targets of the --search branch:
\*   for x in query:
\*       for policy in policies:
\*           if x in policy["name"]: targets.append(policy.copy())
RECURSIVE SearchTargets(_, _)
SearchTargets(q, objs) ==
    IF q = <<>> THEN <<>>
    ELSE SelectSeq(objs, LAMBDA id : InName(Head(q), ObjectName(id)))
            \o SearchTargets(Tail(q), objs)

\* the flags of the runs the model starts; a flag the handlers of the type
\* never read is left off; --slack is given with --search only and --smb_url
\* never: SpecOrch follows their calls after a delete of the block
MainArgs ==
    {a \in [type : ObjectTypes, all : BOOLEAN, unused : BOOLEAN,
            disabled : BOOLEAN, details : BOOLEAN, search : BOOLEAN,
            category : BOOLEAN, from_csv : BOOLEAN, slack : BOOLEAN,
            smb_url : BOOLEAN,
            names : {SubSeq(PolicyNames, 1, k) : k \in 0..MaxNames}] :
       /\ (a.disabled \/ a.category \/ a.from_csv) => a.type = "policies"
       /\ a.details => a.type \in {"macosprofiles", "iosprofiles"}
       /\ a.search => a.type \in {"computer", "policies", "packages"}
       /\ a.slack => (a.search /\ a.type \in {"policies", "packages"})
       /\ ~a.smb_url}

InitMain ==
    /\ args \in MainArgs
    /\ args_delete \in BOOLEAN
    /\ idkind \in (IF args.from_csv \/ args.type # "policies" THEN {"str"} ELSE IdKinds)
    /\ other_found \in (IF MayFindOthers(HandlerFor(args)) THEN BOOLEAN ELSE {FALSE})
    /\ \E n \in 0..MaxMainCands : cands = [i \in 1..n |-> IdTokens[i]]
    /\ existing \in SUBSET {args.names[i] : i \in 1..Len(args.names)}
    /\ mpc = "dispatch"
    /\ handler = "none"
    /\ opc = "idle"
    /\ delete_all = FALSE
    /\ id_list = PyEmptyStr
    /\ pos = 0
    /\ status_code = NoStatus
    /\ typed_ids = [asked |-> FALSE, ids |-> {}]
    /\ asked = <<>>
    /\ deleted = <<>>
    /\ retypes = MaxRetype   \* every answer is one confirm() accepts
    /\ npos = 0
    /\ looked_up = <<>>
    /\ origin = <<>>
    /\ notified = <<>>
    /\ smb_ops = <<>>
    /\ quit_typed = FALSE
    \* only the --search branch reads the strings
    /\ query \in (IF Mode(HandlerFor(args), args) = "search" THEN Queries ELSE {<<>>})
    /\ TransportIdle
    /\ RestIdle
    /\ DeleteIdle
    /\ UsageIdle

\* main() calls the handler; the handler takes the branch its flags select
Dispatch ==
    /\ mpc = "dispatch"
    /\ LET h == HandlerFor(args)
           md == Mode(h, args)
       IN  /\ handler' = h
           /\ cands' = IF md = "search" THEN SearchTargets(query, cands)
                        ELSE HandlerCands(h, args, cands)
           /\ opc' = IF md = "block" THEN "start" ELSE "idle"
           /\ mpc' = CASE md = "block" -> "handler"
                       [] md = "search" -> "search"
                       [] md = "exit" -> "exited"
                       [] OTHER -> AfterHandler(args)
    /\ npos' = 1
    /\ UNCHANGED <<args_delete, other_found, delete_all, id_list, pos, status_code,
                   typed_ids, asked, deleted, retypes, args, existing, looked_up,
                   origin, notified, smb_ops, quit_typed, dvars, uvars, tvars, yvars, query,
                   evars>>

\* the handler returns to main()
HandlerReturns ==
    /\ mpc = "handler"
    /\ opc = "done"
    /\ mpc' = AfterHandler(args)
    /\ npos' = 1
    /\ UNCHANGED <<ovars, args, existing, looked_up, origin, notified, smb_ops,
                   quit_typed, dvars, uvars, tvars, yvars, query, evars>>

\* one target of the --search branch of handle_policies / handle_packages:
\*   if args.delete: api_delete.delete_api_object(...)
SearchStep ==
    /\ mpc = "search"
    /\ \E out \in DeleteOutcomes, sm \in ShareOutcomes(handler) :
         LET last == npos > Len(cands)
             id == IF last THEN "" ELSE cands[npos]
             go == ~last /\ args_delete
             ok == go /\ out # FaultRaised
             pkg == handler = "handle_packages"
             smb == ok /\ pkg /\ args.smb_url /\ SmbStepRuns(out)
             smbraised == smb /\ SmbStep(sm) = "raised"
             slack == IF ok /\ ~smbraised /\ args.slack
                        THEN SearchNotification(handler) ELSE "none"
             raised == (go /\ ~ok) \/ smbraised \/ slack = "UnboundLocalError"
         IN  /\ ~smb => sm = "ok"
             /\ deleted' = IF go THEN Append(deleted, <<id, "delete_api_object">>)
                           ELSE deleted
             /\ origin' = IF go THEN Append(origin, "search") ELSE origin
             \* handle_policies does not keep what the call returns
             /\ status_code' = IF ok /\ pkg THEN out ELSE status_code
             /\ returned' = IF ok THEN Append(returned, id) ELSE returned
             /\ share_step' = IF smb
                                THEN [n |-> share_step.n + 1, id |-> id,
                                      outcome |-> sm, status |-> out]
                                ELSE share_step
             /\ smb_ops' = IF smb /\ ~smbraised THEN Append(smb_ops, id) ELSE smb_ops
             \* no notification is sent in this branch
             /\ notified' = notified
             /\ last_note' = last_note
             /\ mpc' = IF last THEN AfterHandler(args)
                       ELSE IF raised THEN "crashed" ELSE "search"
             /\ npos' = IF last THEN 1 ELSE IF raised THEN npos ELSE npos + 1
    /\ UNCHANGED <<handler, args_delete, other_found, cands, opc, delete_all,
                   id_list, pos, typed_ids, asked, retypes, args, existing,
                   looked_up, quit_typed, dvars, uvars, tvars, yvars, query>>

\* one name of handle_policy_list: look the name up; if it exists and
\* args.delete, delete it
NameStep ==
    /\ mpc = "names"
    /\ \E out \in DeleteOutcomes :
         LET last == npos > Len(args.names)
             nm == IF last THEN "" ELSE args.names[npos]
             go == ~last /\ nm \in existing /\ args_delete
             ok == go /\ out # FaultRaised
         IN  /\ looked_up' = IF last THEN looked_up ELSE Append(looked_up, nm)
             /\ deleted' = IF go THEN Append(deleted, <<NameId(nm), "delete_api_object">>)
                           ELSE deleted
             /\ origin' = IF go THEN Append(origin, "names") ELSE origin
             /\ status_code' = IF ok THEN out ELSE status_code
             /\ returned' = IF ok THEN Append(returned, NameId(nm)) ELSE returned
             /\ notified' = IF ok /\ args.slack
                              THEN Append(notified, NameId(nm)) ELSE notified
             /\ last_note' = IF ok /\ args.slack
                                THEN Notification(NameId(nm), "delete", out)
                              ELSE last_note
             /\ mpc' = IF last THEN "end"
                       ELSE IF go /\ ~ok THEN "crashed" ELSE "names"
             /\ npos' = IF last \/ (go /\ ~ok) THEN npos ELSE npos + 1
    /\ UNCHANGED <<handler, args_delete, other_found, cands, opc, delete_all,
                   id_list, pos, typed_ids, asked, retypes, args, existing,
                   smb_ops, share_step, quit_typed, dvars, uvars, tvars, yvars, query>>

NextMain == Dispatch \/ NextOrch \/ HandlerReturns \/ SearchStep \/ NameStep

SpecMain == InitMain /\ [][NextMain]_vars

\* the run has ended: main() returned or the process exited
RunEnded ==
    mpc \in {"end", "exited", "crashed"} \/ (mpc = "handler" /\ opc \in {"quit", "crashed"})


(***************************************************************************)
(* Claims about main() and the candidate sources                            *)
(***************************************************************************)

\* a confirm() prompt of the block is on the screen or has been answered
PromptShown == opc \in {"bulk_prompt", "ids_prompt", "items", "done", "quit", "crashed"}

\* some per-item prompt for the id was answered yes
AnsweredYes(id) ==
    \E j \in 1..Len(asked) : asked[j][1] = id /\ asked[j][2] \in {"y", "Y"}

\* C12 (as stated): for every candidate source, no DELETE request is issued
\* before a confirmation prompt, bulk or per-item, has been answered yes.
C12_ConfirmBeforeDelete ==
    deleted # <<>> =>
        (delete_all \/ \E j \in 1..Len(asked) : asked[j][2] \in {"y", "Y"})

\* C12 (amended): a candidate of a confirm-then-delete block (the unused or
\* disabled set, the category filter, the csv list) is passed to the Delete
\* Executor only after the bulk prompt or its own prompt was answered yes;
\* a search result or a named policy is deleted without a prompt, and only
\* in a run with --delete.
C12_ConfirmBeforeBlockDelete ==
    \A i \in 1..Len(deleted) :
        /\ Len(origin) = Len(deleted)
        /\ origin[i] = "block" => (delete_all \/ AnsweredYes(deleted[i][1]))
        /\ origin[i] # "block" => args_delete

C12_Witness ==
    /\ mpc = "end" /\ ~delete_all
    /\ handler = "handle_policies_in_category"
    /\ origin = <<"block", "names">>
    /\ asked = << <<"1", "Y">> >>

\* C13: a step in which, or after which, q or Q has been typed at a confirm()
\* prompt makes no DELETE request, sends no notification and does no
\* file-share operation; the run is over, and what was deleted stays in the
\* record of the deleted objects.
C13_QuitEndsRun ==
    [][quit_typed' =>
          /\ opc' = "quit"
          /\ deleted' = deleted
          /\ notified' = notified
          /\ smb_ops' = smb_ops]_vars

C13_Witness ==
    /\ quit_typed /\ opc = "quit"
    /\ handler = "handle_packages"
    /\ Len(cands) = 2
    /\ deleted = << <<cands[1], "delete_api_object">> >>
    /\ notified = <<cands[1]>>
    /\ smb_ops = <<cands[1]>>

\* C14: in a run without --delete no call of the Delete Executor is made,
\* whatever the other flags and whatever the server holds.
C14_NoDeleteWithoutFlag == ~args_delete => deleted = <<>>

C14_Witness ==
    /\ ~args_delete /\ mpc = "end"
    /\ handler = "handle_packages" /\ args.unused
    /\ cands # <<>>
    /\ looked_up # <<>> /\ existing # {}

\* C15: in a run with --all and without --unused, --disabled and --search no
\* delete prompt is shown and no call of the Delete Executor is made, also
\* with --delete (stated for the runs without --name, whose deletes C16 and
\* C17 are about).
C15_AllTakesNoAction ==
    (args.all /\ ~args.unused /\ ~args.disabled /\ ~args.search
     /\ args.names = <<>>) =>
        (~PromptShown /\ deleted = <<>>)

\* C16: handle_policy_list runs, and a policy is deleted by name, only in a
\* run that selected --policies.
C16_NameListOnlyWithPolicies ==
    (mpc = "names" \/ looked_up # <<>> \/ \E i \in 1..Len(origin) : origin[i] = "names")
        => args.type = "policies"

\* C17: a run with --policies --delete and --name values, and none of --all,
\* --search, --unused, --disabled, --category, --from_csv, has, when it ends,
\* looked up every name and passed each existing one to the Delete Executor.
C17_NamedPoliciesDeleted ==
    (/\ args.type = "policies" /\ args_delete /\ args.names # <<>>
     /\ ~args.all /\ ~args.search /\ ~args.unused /\ ~args.disabled
     /\ ~args.category /\ ~args.from_csv
     /\ RunEnded /\ mpc # "crashed")
        => /\ looked_up = args.names
           /\ \A nm \in existing :
                \E i \in 1..Len(deleted) : deleted[i][1] = NameId(nm)

(***************************************************************************)
(* Claims about what follows a delete                                       *)
(***************************************************************************)

\* the object of the call of the Delete Executor that returned last; the
\* status it returned is status_code
LastReturned == returned[Len(returned)]

\* the statuses of a call that did not delete: a stop on 401, 404 or 409, or
\* the last status of a call that used up its attempts
FailedStatuses == (DeleteOutcomes \ {FaultRaised}) \ {200, 201, 204}

\* C23: with notifications enabled, every step in which a call of the Delete
\* Executor returns also sends exactly one notification, which names the
\* object of that call, the action delete and the status the call returned;
\* this holds in the search branches as well.
C23_NotifiedAfterEveryDelete ==
    [][(args.slack /\ returned' # returned)
          => /\ notified' = Append(notified, LastReturned')
             /\ last_note' = Notification(LastReturned', "delete", status_code')]_vars

\* C24: a step in which the file-share step of a package fails (the mount,
\* the deletion of the file or the unmount) does not end the run: the loop
\* goes on to the next candidate.
C24_ShareFailureIsWarning ==
    [][(share_step' # share_step /\ share_step'.outcome # "ok")
          => (opc' \in {"items", "done"} /\ pos' = pos + 1)]_vars

\* C25: a step in which the Delete Executor returns a status other than
\* success (it gave up, or stopped on 401, 404 or 409) is followed by the rest
\* of the loop: the position moves to the next candidate and the run has not
\* ended abnormally.
C25_ContinuesAfterFailedDelete ==
    [][(returned' # returned /\ status_code' \in FailedStatuses)
          => (opc' \in {"items", "done"} /\ pos' = pos + 1)]_vars

\* C28: in a run of the --search branch with --delete, no object is passed to
\* the Delete Executor twice, also when its name contains several of the
\* strings searched for.
C28_SearchDeletesOnce ==
    \A i, j \in 1..Len(deleted) :
        (origin[i] = "search" /\ origin[j] = "search"
            /\ deleted[i][1] = deleted[j][1]) => i = j

\* C30: the file of a package is deleted from the share only when the Delete
\* Executor returned 200, 201 or 204 for that package.
C30_ShareDeleteOnlyAfterSuccess ==
    (share_step # NoShareStep /\ mount_smb(share_step.outcome) = "ok")
        => share_step.status \in {200, 201, 204}


(***************************************************************************)
(* Endpoint Catalog (api_objects.py) and Transport (curl.request)           *)
(***************************************************************************)

\* most requests of one run the model follows
MaxRequests == 3

\* the keys of api_endpoint_list
EndpointTypes ==
    {
     "account", "advanced_computer_search",
     "advanced_mobile_device_search", "category", "extension_attribute",
     "computer_group", "computer_prestage", "computer",
     "configuration_profile", "dock_item", "failover", "icon",
     "jamf_pro_version", "jcds", "logflush", "ldap_server",
     "mac_application", "mobile_device_application", "mobile_device_group",
     "package", "package_upload", "patch_policy", "patch_software_title",
     "oauth", "os_x_configuration_profile", "policy", "policy_icon",
     "restricted_software", "script", "token",
     "volume_purchasing_locations"}

\* api_endpoints(object_type): the path, as its segments between the "/"
api_endpoints(object_type) ==
    CASE object_type = "account" -> <<"JSSResource", "accounts">>
      [] object_type = "advanced_computer_search" -> <<"JSSResource", "advancedcomputersearches">>
      [] object_type = "advanced_mobile_device_search" -> <<"JSSResource", "advancedmobiledevicesearches">>
      [] object_type = "category" -> <<"api", "v1", "categories">>
      [] object_type = "extension_attribute" -> <<"JSSResource", "computerextensionattributes">>
      [] object_type = "computer_group" -> <<"JSSResource", "computergroups">>
      [] object_type = "computer_prestage" -> <<"api", "v2", "computer-prestages">>
      [] object_type = "computer" -> <<"JSSResource", "computers">>
      [] object_type = "configuration_profile" -> <<"JSSResource", "mobiledeviceconfigurationprofiles">>
      [] object_type = "dock_item" -> <<"JSSResource", "dockitems">>
      [] object_type = "failover" -> <<"api", "v1", "sso", "failover">>
      [] object_type = "icon" -> <<"api", "v1", "icon">>
      [] object_type = "jamf_pro_version" -> <<"api", "v1", "jamf-pro-version">>
      [] object_type = "jcds" -> <<"api", "v1", "jcds">>
      [] object_type = "logflush" -> <<"JSSResource", "logflush">>
      [] object_type = "ldap_server" -> <<"JSSResource", "ldapservers">>
      [] object_type = "mac_application" -> <<"JSSResource", "macapplications">>
      [] object_type = "mobile_device_application" -> <<"JSSResource", "mobiledeviceapplications">>
      [] object_type = "mobile_device_group" -> <<"JSSResource", "mobiledevicegroups">>
      [] object_type = "package" -> <<"JSSResource", "packages">>
      [] object_type = "package_upload" -> <<"dbfileupload">>
      [] object_type = "patch_policy" -> <<"JSSResource", "patchpolicies">>
      [] object_type = "patch_software_title" -> <<"JSSResource", "patchsoftwaretitles">>
      [] object_type = "oauth" -> <<"api", "oauth", "token">>
      [] object_type = "os_x_configuration_profile" -> <<"JSSResource", "osxconfigurationprofiles">>
      [] object_type = "policy" -> <<"JSSResource", "policies">>
      [] object_type = "policy_icon" -> <<"JSSResource", "fileuploads", "policies">>
      [] object_type = "restricted_software" -> <<"JSSResource", "restrictedsoftware">>
      [] object_type = "script" -> <<"uapi", "v1", "scripts">>
      [] object_type = "token" -> <<"api", "v1", "auth", "token">>
      [] object_type = "volume_purchasing_locations" -> <<"api", "v1", "volume-purchasing-locations">>

\* the hosts a request goes to: the Jamf Pro server and the chat webhook
JamfHost == "jss.example.com"
SlackHost == "hooks.slack.com"

\* the path of a webhook url
WebhookPath == <<"services", "T0", "B0">>

\* the urls the callers build: jamf_url + "/" + endpoint, and slack_webhook
CatalogUrls == {[host |-> JamfHost, path |-> api_endpoints(ty)] : ty \in EndpointTypes}

Urls == CatalogUrls \cup {[host |-> SlackHost, path |-> WebhookPath]}

Methods == {"GET", "DELETE", "POST", "PUT", "PATCH"}

\* some segment of the path is s
HasSegment(url, s) == \E i \in 1..Len(url.path) : url.path[i] = s

\* '"/token" not in url', '"slack" in url', '"hooks.slack.com" in url',
\* '"fileuploads" in url', '"uapi" in url', over the hosts and segments above
InUrlToken(url) == HasSegment(url, "token")
InUrlSlack(url) == url.host = SlackHost
InUrlHooksSlack(url) == url.host = SlackHost
InUrlFileuploads(url) == HasSegment(url, "fileuploads")
InUrlUapi(url) == HasSegment(url, "uapi")

\* lines 40-44: the authorization header first put on the command
AuthHeader(url) ==
    IF ~InUrlToken(url) THEN "Bearer"
    ELSE IF ~InUrlSlack(url) THEN "Basic"
    ELSE "none"

\* lines 46-78: which branch of the method chain runs
MethodBranch(method, url) ==
    IF method = "GET" \/ method = "DELETE" THEN "accept"
    ELSE IF method = "POST" /\ InUrlHooksSlack(url) THEN "slack"
    ELSE IF method = "POST" /\ InUrlFileuploads(url) THEN "upload"
    ELSE IF method = "POST" \/ method = "PUT" THEN "body"
    ELSE "unsupported"

ContentTypeAlwaysJson(url) == "json"

\* lines 72-76: "uapi sends json, classic API must send xml"
ContentTypeOfBody(url) == IF InUrlUapi(url) THEN "json" ELSE "xml"

\* the command before the cookie is added: the Slack branch builds a new
\* command without the authorization header and without -D headers_file
BuildCommand(method, url, xml) ==
    LET b == MethodBranch(method, url)
    IN  [method |-> method, url |-> url,
         auth |-> IF b = "slack" THEN "none" ELSE AuthHeader(url),
         accept |-> IF b = "accept" THEN (IF xml THEN "xml" ELSE "json") ELSE "none",
         content |-> CASE b = "slack" -> "json"
                       [] b = "upload" -> "multipart"
                       [] b = "body" -> ContentTypeOfBody(url)
                       [] OTHER -> "none",
         dumps_headers |-> b # "slack",
         cookie |-> "none"]


\* a header line is the list of its whitespace-separated parts; a part that
\* holds the marker carries its value, and whether a ";" ends it
Part(n) == [name |-> n, value |-> "", semi |-> FALSE]
MarkerPart(v) == [name |-> "APBALANCEID", value |-> v, semi |-> TRUE]
NoCookie == Part("none")

\* the values the load balancer hands out
CookieValues == {"aws.a", "aws.b"}

StatusLine == <<Part("HTTP/1.1"), Part("200"), Part("OK")>>
CookieLine(v) == <<Part("Set-Cookie:"), MarkerPart(v), Part("path=/")>>

\* the headers curl -D writes for a response with the marker m ("none": without)
ResponseHeaders(m) == IF m = "none" THEN <<StatusLine>> ELSE <<StatusLine, CookieLine(m)>>

\* '"APBALANCEID" in header'
HasMarker(line) == \E i \in 1..Len(line) : line[i].name = "APBALANCEID"

\* the largest member of a non-empty set of numbers
SetMax(S) == CHOOSE x \in S : \A y \in S : y <= x

\* the last line of the file that holds the marker, as a one-line file
LastMarked(file, otherwise) ==
    LET marked == {i \in 1..Len(file) : HasMarker(file[i])}
    IN  IF marked = {} THEN otherwise ELSE <<file[SetMax(marked)]>>

WriteSessionKeepFirst(hf, jar) ==
    IF jar # NoFile THEN jar
    ELSE IF hf = NoFile THEN jar ELSE LastMarked(hf, jar)

\* lines 80-90 "write session": every header of headers_file that holds the
\* marker is written over cookie_jar; the file is the one the request before
\* left (IOError if there is none)
WriteSession(hf, jar) == IF hf = NoFile THEN jar ELSE LastMarked(hf, jar)

\* header.split()[1].rstrip(";")
CookieOf(line) == [line[2] EXCEPT !.semi = FALSE]

\* lines 92-106 "look for existing session": the --cookie value added
AttachCookie(jar) ==
    IF jar = NoFile THEN NoCookie
    ELSE LET m == LastMarked(jar, NoFile)
         IN  IF m = NoFile THEN NoCookie ELSE CookieOf(m[1])

\* the inputs of request(): any method, any url of the catalog or the
\* webhook, xml or not
AllInputs == [method : Methods, url : Urls, xml : BOOLEAN]

\* the requests of a deleting run: list, delete, token, notification
SessionInputs ==
    {[method |-> "GET", url |-> [host |-> JamfHost, path |-> api_endpoints("policy")], xml |-> FALSE],
     [method |-> "DELETE", url |-> [host |-> JamfHost, path |-> api_endpoints("policy")], xml |-> FALSE],
     [method |-> "POST", url |-> [host |-> JamfHost, path |-> api_endpoints("token")], xml |-> FALSE],
     [method |-> "POST", url |-> [host |-> SlackHost, path |-> WebhookPath], xml |-> FALSE]}

\* the run starts with the files an earlier run may have left in the
\* temporary directory
InitTransport ==
    /\ tpc = "ready"
    /\ headers_file \in {NoFile, ResponseHeaders("none"), ResponseHeaders("aws.a")}
    /\ cookie_jar \in {NoFile, <<CookieLine("aws.b")>>}
    /\ curl_cmd = NoCommand
    /\ sent_cookies = <<>>
    /\ resp_markers = <<>>
    /\ args = BlockArgs(FALSE, FALSE)
    /\ MainIdle
    /\ RestIdle
    /\ OrchIdle
    /\ idkind = "int"
    /\ DeleteIdle
    /\ UsageIdle

\* one call of curl.request whose input is drawn from inputs, in a run of at
\* most max calls; the server, not the webhook, may answer with the marker
RequestOf(inputs, max) ==
    /\ tpc = "ready"
    /\ Len(sent_cookies) < max
    /\ \E inp \in inputs, m \in CookieValues \cup {"none"}, ok \in BOOLEAN :
         LET jar == WriteSession(headers_file, cookie_jar)
             cmd == [BuildCommand(inp.method, inp.url, inp.xml)
                       EXCEPT !.cookie = AttachCookie(jar)]
             marker == IF cmd.dumps_headers /\ inp.url.host = JamfHost
                         THEN m ELSE "none"
         IN  /\ cookie_jar' = jar
             /\ curl_cmd' = cmd
             /\ sent_cookies' = Append(sent_cookies, cmd.cookie)
             /\ IF ok
                  THEN /\ headers_file' = IF cmd.dumps_headers
                                            THEN ResponseHeaders(marker)
                                            ELSE headers_file
                       /\ resp_markers' = Append(resp_markers, marker)
                       /\ tpc' = "ready"
                  ELSE /\ tpc' = "raised"   \* subprocess.check_output raises
                       /\ UNCHANGED <<headers_file, resp_markers>>
    /\ UNCHANGED <<dvars, uvars, ovars, mvars, yvars, evars>>

RequestAny == RequestOf(AllInputs, 1)

RequestInRun == RequestOf(SessionInputs, MaxRequests)

\* one request, over every input
SpecTransport == InitTransport /\ [][RequestAny]_vars

\* the requests of one run
SpecSession == InitTransport /\ [][RequestInRun]_vars

(***************************************************************************)
(* Claims about the Transport                                               *)
(***************************************************************************)

\* a request has been built
Built == Len(sent_cookies) > 0

\* the marker most recently received among the responses 1..k
LastMarker(k) ==
    LET S == {j \in 1..k : resp_markers[j] # "none"}
    IN  IF S = {} THEN "none" ELSE resp_markers[SetMax(S)]

\* C18: when a response of the run has carried the marker, the next request
\* is sent with that cookie, and every later request sends the cookie of the
\* most recent response that carried one.
C18_CookieReused ==
    \A k \in 1..Len(resp_markers) :
        (k + 1 <= Len(sent_cookies) /\ LastMarker(k) # "none") =>
            sent_cookies[k + 1] = [MarkerPart(LastMarker(k)) EXCEPT !.semi = FALSE]

C18_Witness ==
    /\ Len(sent_cookies) = 3 /\ Len(resp_markers) = 3
    /\ resp_markers[1] = "aws.a" /\ resp_markers[2] = "aws.b"
    /\ sent_cookies[2].value = "aws.a"
    /\ sent_cookies[3].value = "aws.b"

\* the urls of the token endpoints of the catalog
IsTokenEndpoint(url) ==
    url.host = JamfHost /\ url.path \in {api_endpoints("token"), api_endpoints("oauth")}

\* C29: a request to the host of the chat webhook carries no cookie, whatever
\* the earlier responses of the run held.
C29_NoCookieToWebhook ==
    (Built /\ curl_cmd.url.host = SlackHost) => curl_cmd.cookie = NoCookie

\* C19: for every method, the request carries Basic credentials exactly when
\* the url is a token endpoint, no authorization header when the url is the
\* webhook host, and a Bearer token otherwise.
C19_AuthByUrl ==
    Built =>
        /\ (curl_cmd.auth = "Basic") <=> IsTokenEndpoint(curl_cmd.url)
        /\ curl_cmd.url.host = SlackHost => curl_cmd.auth = "none"
        /\ (~IsTokenEndpoint(curl_cmd.url) /\ curl_cmd.url.host # SlackHost)
              => curl_cmd.auth = "Bearer"

\* the path families of the two API generations
IsModern(url) ==
    /\ url.host = JamfHost
    /\ \/ url.path[1] = "api" /\ url.path[2] \in {"v1", "v2"}
       \/ url.path[1] = "uapi" /\ url.path[2] = "v1"

IsLegacy(url) == url.host = JamfHost /\ url.path[1] = "JSSResource"

\* C20: a POST or PUT sends Content-type JSON to the endpoints of the
\* api/v1, api/v2 and uapi/v1 families and XML to the JSSResource endpoints
\* (the upload path aside, which sends form data); a POST to the webhook
\* sends JSON.
C20_ContentTypeByGeneration ==
    (Built /\ curl_cmd.method \in {"POST", "PUT"}) =>
        /\ IsModern(curl_cmd.url) => curl_cmd.content = "json"
        /\ (IsLegacy(curl_cmd.url) /\ MethodBranch(curl_cmd.method, curl_cmd.url) # "upload")
              => curl_cmd.content = "xml"
        /\ (curl_cmd.url.host = SlackHost /\ curl_cmd.method = "POST")
              => curl_cmd.content = "json"


(***************************************************************************)
(* Endpoint Catalog: calls of api_endpoints                                 *)
(***************************************************************************)

\* object types that are not keys of api_endpoint_list
UnknownTypes == {"policies", "computergroups", "smart_group", ""}

api_endpoints_or_default(object_type) ==
    IF object_type \in EndpointTypes
      THEN [called |-> TRUE, raised |-> FALSE, path |-> api_endpoints(object_type)]
      ELSE [called |-> TRUE, raised |-> FALSE, path |-> <<"JSSResource">>]

\* "return api_endpoint_list[object_type]": the value of the key, or KeyError
api_endpoints_call(object_type) ==
    IF object_type \in EndpointTypes
      THEN [called |-> TRUE, raised |-> FALSE, path |-> api_endpoints(object_type)]
      ELSE [called |-> TRUE, raised |-> TRUE, path |-> <<>>]

InitCatalog ==
    /\ cpc = "ready"
    /\ ctypes \in (EndpointTypes \cup UnknownTypes) \X (EndpointTypes \cup UnknownTypes)
    /\ cres = <<NotCalled, NotCalled>>
    /\ EffectsIdle
    /\ RaceIdle
    /\ TransportIdle
    /\ args = BlockArgs(FALSE, FALSE)
    /\ MainIdle
    /\ OrchIdle
    /\ idkind = "int"
    /\ DeleteIdle
    /\ UsageIdle

\* one of the two calls
LookupEndpoint ==
    /\ cpc = "ready"
    /\ \E i \in {1, 2} :
         /\ ~cres[i].called
         /\ cres' = [cres EXCEPT ![i] = api_endpoints_call(ctypes[i])]
    /\ UNCHANGED <<cpc, ctypes, rvars, dvars, uvars, ovars, mvars, tvars, evars>>

SpecCatalog == InitCatalog /\ [][LookupEndpoint]_vars

\* C21: a call of api_endpoints returns a path exactly for the object types
\* of the enumeration and raises, returning no path, for every other type;
\* two calls for distinct enumerated types return distinct paths.
C21_CatalogTotalInjective ==
    /\ \A i \in {1, 2} :
         cres[i].called =>
            /\ ctypes[i] \in EndpointTypes => (~cres[i].raised /\ cres[i].path # <<>>)
            /\ ctypes[i] \notin EndpointTypes => (cres[i].raised /\ cres[i].path = <<>>)
    /\ (cres[1].called /\ cres[2].called /\ ctypes[1] # ctypes[2]
          /\ ~cres[1].raised /\ ~cres[2].raised) => cres[1].path # cres[2].path

C21_Witness ==
    /\ ctypes = <<"policy", "smart_group">>
    /\ cres[1].called /\ cres[2].called
    /\ cres[1].path = <<"JSSResource", "policies">>
    /\ cres[2].raised

(***************************************************************************)
(* Two instances on one workspace path (curl.request, make_tmp_dir)         *)
(***************************************************************************)

\* the status codes of the responses the instances get
RaceStatuses == {200, 401, 404, 409, 500}

InitRace ==
    /\ rpc = [i \in Instances |-> "start"]
    /\ rfiles = [f \in WorkspacePaths |-> NoHeaders]
    /\ rret = [i \in Instances |-> NoHeaders]
    /\ rlast = NoHeaders
    /\ CatalogIdle
    /\ EffectsIdle
    /\ TransportIdle
    /\ args = BlockArgs(FALSE, FALSE)
    /\ MainIdle
    /\ OrchIdle
    /\ idkind = "int"
    /\ DeleteIdle
    /\ UsageIdle

\* "subprocess.check_output(curl_cmd)" with "-D headers_file": the curl
\* process of instance i writes the headers of its response to the file
RunCurl(i) ==
    /\ rpc[i] = "start"
    /\ \E s \in RaceStatuses :
         LET h == [writer |-> i, status |-> s]
         IN  /\ rfiles' = [rfiles EXCEPT ![headers_file_path(i)] = h]
             /\ rlast' = h
    /\ rpc' = [rpc EXCEPT ![i] = "ran"]
    /\ UNCHANGED <<rret, cvars, dvars, uvars, ovars, mvars, tvars, evars>>

\* 'with open(headers_file, "r") as file: headers = file.readlines()' and the
\* status code taken from the status line; "return r()"
ReadHeaders(i) ==
    /\ rpc[i] = "ran"
    /\ rret' = [rret EXCEPT ![i] = rfiles[headers_file_path(i)]]
    /\ rpc' = [rpc EXCEPT ![i] = "returned"]
    /\ UNCHANGED <<rfiles, rlast, cvars, dvars, uvars, ovars, mvars, tvars, evars>>

NextRace == \E i \in Instances : RunCurl(i) \/ ReadHeaders(i)

SpecRace == InitRace /\ [][NextRace]_vars

\* C27: the headers and the status code a call returns are those of the curl
\* process that ended last before the read, whichever instance ran it; nothing
\* ties them to the caller's own request.
C27_ReturnsLastWritten ==
    [][\A i \in Instances :
          (rpc[i] = "ran" /\ rpc'[i] = "returned") => rret'[i] = rlast]_vars

\* B's process wrote 404 after A's process had written, and A's call returned
\* the headers B's process wrote
C27_Witness ==
    /\ rpc["A"] = "returned"
    /\ rret["A"] = [writer |-> "B", status |-> 404]
    /\ rpc["B"] = "returned"
    /\ rret["B"] = [writer |-> "B", status |-> 404]

====
